---- MODULE Spec2Model ----
(***************************************************************************)
(* Model of backend/app/rest/api/stream.go: the Streamer type, its         *)
(* Activate method (the consumer loop with the admission check) and the    *)
(* eventsCh producer goroutine.                                            *)
(*                                                                         *)
(* Every Activate call is one element of Streams.  A call owns a context,  *)
(* a check function fn, a sink w, an unbuffered channel and a producer     *)
(* goroutine with its ticker.  Time is discrete: Tick is one time unit.    *)
(* Steps that do not block (atomic add, select with a ready case, the      *)
(* deferred functions) happen before time advances; the sink's Write and   *)
(* Flush are I/O and may take any amount of time.                          *)
(*                                                                         *)
(* Spec follows every step of the consumer loop and of the producer.       *)
(* SpecAdm is about the admission counter alone: it keeps the increment,   *)
(* the check and the deferred decrement as separate steps and takes the    *)
(* for loop, which never touches activeCount, as the single step Stream.   *)
(* SpecPair follows every step of two calls made to one Streamer, and      *)
(* FairSpec follows one call under the fairness of the Go scheduler.       *)
(***************************************************************************)
EXTENDS Integers, Sequences, FiniteSets, TLC

\* ---- bounds of the model --------------------------------------------------
NumCalls == 3           \* Activate calls of the admission specification
NumSessions == 1        \* Activate calls of the stream specification
MaxActiveLimit == 2     \* Streamer.MaxActive is drawn from 0..MaxActiveLimit
MaxUpdates == 2         \* changed = true results one check function gives
TimeOut == 2            \* Streamer.TimeOut, in time units
Refresh == 1            \* Streamer.Refresh, in time units

\* every Activate call is one stream; the stream specification, which follows
\* each step of the loop and of the producer, runs the first NumSessions
Streams == 1..(IF NumCalls > NumSessions THEN NumCalls ELSE NumSessions)
Sessions == 1..NumSessions
Single == {1}

VARIABLES
    MaxActive,      \* Streamer.MaxActive
    activeCount,    \* Streamer.activeCount
    cpc,            \* position of the Activate call
    ppc,            \* position of the eventsCh goroutine
    exit,           \* the return statement Activate left through
    cancelled,      \* ctx.Done() is closed
    pmsg,           \* the steamEventResp the producer is sending
    resp,           \* resp.data held by the consumer after a receive
    timer,          \* time left on the consumer's time.After(s.TimeOut)
    tickRem,        \* time left until the ticker's next tick
    tickC,          \* tick.C holds a tick (buffer of one)
    sink,           \* payloads written to w
    flushes,        \* calls of fw.Flush()
    produced,       \* payloads fn returned with upd = true
    fnErr,          \* fn has returned an error
    age,            \* time since Activate was called (saturating)
    idle,           \* time spent in the current select (saturating)
    sinceCancel     \* time since ctx was cancelled, while running (saturating)

vars == <<MaxActive, activeCount, cpc, ppc, exit, cancelled, pmsg, resp,
          timer, tickRem, tickC, sink, flushes, produced, fnErr, age, idle,
          sinceCancel>>

\* ---- helpers --------------------------------------------------------------
Min(a, b) == IF a < b THEN a ELSE b

NoResp == [data |-> 0, err |-> FALSE]

\* steamEventResp{data: resp, err: nil} and {data: nil, err: errors.Wrap(err)}
steamEventResp(d, e) == [data |-> d, err |-> e]

\* mutants of the admission check: off by one either way
TooMany_Lax(c) == c > MaxActive + 1

TooMany_Strict(c) == c >= MaxActive

\* mutant of the admission check: MaxActive = 0 means no limit
TooMany_ZeroUnlimited(c) == MaxActive > 0 /\ c > MaxActive

\* count > s.MaxActive
TooMany(c) == c > MaxActive

\* mutant of the error return: return nil in place of return resp.err
Err_Swallowed(s) ==
    CASE exit[s] = "rejected"  -> "too many streams"
      [] exit[s] = "writefail" -> "send to stream failed"
      [] OTHER                 -> "nil"

\* mutant of the write error: it is returned as the error of the check
\* function
Err_Merged(s) ==
    CASE exit[s] = "rejected"  -> "too many streams"
      [] exit[s] = "error"     -> "can't get stream data"
      [] exit[s] = "writefail" -> "can't get stream data"
      [] OTHER                 -> "nil"

\* the error value Activate returns, by the return statement taken
Err(s) ==
    CASE exit[s] = "rejected"  -> "too many streams"
      [] exit[s] = "error"     -> "can't get stream data"
      [] exit[s] = "writefail" -> "send to stream failed"
      [] OTHER                 -> "nil"

\* the call has incremented activeCount and not yet run its deferred decrement
InFlight(s) == cpc[s] \in {"select", "write", "flush", "ret"}

\* the call passed the admission check and has not returned
Accepted(s) == InFlight(s) /\ exit[s] # "rejected"

\* the consumer loop is running
Running(s) == cpc[s] \in {"select", "write", "flush"}

\* mutants of the timer: it runs one time unit too long, or too short
NewTimer_Late == TimeOut + 1

NewTimer_Early == TimeOut - 1

\* time.After(s.TimeOut), created when the select statement is entered
NewTimer == TimeOut

\* fw, okFlush := w.(http.Flusher): the sinks of the odd calls are
\* http.Flushers, those of the even calls plain io.Writers
okFlush(s) == s % 2 = 1

\* mutant of the close: the channel reads as closed while the error message
\* still waits in the send
Closed_BeforeError(s) == ppc[s] = "done" \/ (ppc[s] = "send" /\ pmsg[s].err)

\* close(ch) has run
Closed(s) == ppc[s] = "done"

\* the ticker created by time.NewTicker runs until tick.Stop()
TickerOn(s) == ppc[s] \in {"select", "send", "exit"}

\* ---- initial state --------------------------------------------------------
Init ==
    /\ MaxActive \in 0..MaxActiveLimit
    /\ activeCount = 0
    /\ cpc = [s \in Streams |-> "idle"]
    /\ ppc = [s \in Streams |-> "none"]
    /\ exit = [s \in Streams |-> "none"]
    /\ cancelled = [s \in Streams |-> FALSE]
    /\ pmsg = [s \in Streams |-> NoResp]
    /\ resp = [s \in Streams |-> 0]
    /\ timer = [s \in Streams |-> 0]
    /\ tickRem = [s \in Streams |-> 0]
    /\ tickC = [s \in Streams |-> FALSE]
    /\ sink = [s \in Streams |-> <<>>]
    /\ flushes = [s \in Streams |-> 0]
    /\ produced = [s \in Streams |-> <<>>]
    /\ fnErr = [s \in Streams |-> FALSE]
    /\ age = [s \in Streams |-> 0]
    /\ idle = [s \in Streams |-> 0]
    /\ sinceCancel = [s \in Streams |-> 0]

\* ---- Activate -------------------------------------------------------------
\* updCh := s.eventsCh(ctx, eventFn()): the channel is made, the goroutine
\* is started and creates its ticker
Start(s) ==
    /\ cpc[s] = "idle"
    /\ cpc' = [cpc EXCEPT ![s] = "adm"]
    /\ ppc' = [ppc EXCEPT ![s] = "select"]
    /\ tickRem' = [tickRem EXCEPT ![s] = Refresh]
    /\ UNCHANGED <<MaxActive, activeCount, exit, cancelled, pmsg, resp,
                   timer, tickC, sink, flushes, produced, fnErr, age, idle,
                   sinceCancel>>

\* entering the select statement of the for loop
EnterSelect(s) ==
    /\ timer' = [timer EXCEPT ![s] = NewTimer]
    /\ idle' = [idle EXCEPT ![s] = 0]

\* mutant of the rejection: the error is noted but the call goes on into its
\* loop
Reject_Ignored(s) ==
    /\ cpc' = [cpc EXCEPT ![s] = "select"]
    /\ exit' = [exit EXCEPT ![s] = "rejected"]
    /\ EnterSelect(s)

\* return errors.New("too many streams"), before the loop
Reject(s) ==
    /\ cpc' = [cpc EXCEPT ![s] = "ret"]
    /\ exit' = [exit EXCEPT ![s] = "rejected"]
    /\ UNCHANGED <<timer, idle>>

\* count := atomic.AddInt32(&s.activeCount, 1); defer ...; if count > MaxActive
Admit(s) ==
    /\ cpc[s] = "adm"
    /\ activeCount' = activeCount + 1
    /\ IF TooMany(activeCount + 1)
       THEN Reject(s)
       ELSE /\ cpc' = [cpc EXCEPT ![s] = "select"]
            /\ EnterSelect(s)
            /\ UNCHANGED exit
    /\ UNCHANGED <<MaxActive, ppc, cancelled, pmsg, resp, tickRem, tickC,
                   sink, flushes, produced, fnErr, age, sinceCancel>>

\* mutant of the return after a failed write: the error is dropped and the
\* loop goes on to the flush
Leave_Continue(s, why) ==
    /\ cpc' = [cpc EXCEPT ![s] = IF why = "writefail" THEN "flush" ELSE "ret"]
    /\ exit' = [exit EXCEPT ![s] = why]
    /\ timer' = [timer EXCEPT ![s] = 0]
    /\ idle' = [idle EXCEPT ![s] = 0]

\* mutant of the return on timeout: the outcome is noted but the loop goes
\* round again
Leave_Reenter(s, why) ==
    /\ cpc' = [cpc EXCEPT ![s] = IF why = "timeout" THEN "select" ELSE "ret"]
    /\ exit' = [exit EXCEPT ![s] = why]
    /\ timer' = [timer EXCEPT ![s] = IF why = "timeout" THEN NewTimer ELSE 0]
    /\ idle' = [idle EXCEPT ![s] = 0]

\* a return statement of the loop that needs no other change
Leave(s, why) ==
    /\ cpc' = [cpc EXCEPT ![s] = "ret"]
    /\ exit' = [exit EXCEPT ![s] = why]
    /\ timer' = [timer EXCEPT ![s] = 0]
    /\ idle' = [idle EXCEPT ![s] = 0]

\* case <-ctx.Done(): return nil
CtxDone(s) ==
    /\ cpc[s] = "select"
    /\ cancelled[s]
    /\ Leave(s, "cancel")
    /\ UNCHANGED <<MaxActive, activeCount, ppc, cancelled, pmsg, resp,
                   tickRem, tickC, sink, flushes, produced, fnErr, age,
                   sinceCancel>>

\* case <-time.After(s.TimeOut): return nil
TimedOut(s) ==
    /\ cpc[s] = "select"
    /\ timer[s] = 0
    /\ Leave(s, "timeout")
    /\ UNCHANGED <<MaxActive, activeCount, ppc, cancelled, pmsg, resp,
                   tickRem, tickC, sink, flushes, produced, fnErr, age,
                   sinceCancel>>

\* case resp, ok := <-updCh with ok = false: return nil
RecvClosed(s) ==
    /\ cpc[s] = "select"
    /\ Closed(s)
    /\ Leave(s, "closed")
    /\ UNCHANGED <<MaxActive, activeCount, ppc, cancelled, pmsg, resp,
                   tickRem, tickC, sink, flushes, produced, fnErr, age,
                   sinceCancel>>

\* mutant of the return after the error message: the producer goes on polling
AfterSend_Retry(m) == "select"

\* mutant of the return after the error message: the channel is closed by
\* the receive itself, not by the deferred close of the producer
AfterSend_Closes(m) == IF m.err THEN "done" ELSE "select"

\* where the producer goes when its send has been received: it returns after
\* an error message and goes back to its select after a payload
AfterSend(m) == IF m.err THEN "exit" ELSE "select"

\* case resp, ok := <-updCh with ok = true, meeting the producer's ch <- ...;
\* if resp.err != nil { return resp.err }.  After sending an error the
\* producer returns, after sending data it goes back to its select.
Recv(s) ==
    /\ cpc[s] = "select"
    /\ ppc[s] = "send"
    /\ pmsg' = [pmsg EXCEPT ![s] = NoResp]
    /\ ppc' = [ppc EXCEPT ![s] = AfterSend(pmsg[s])]
    /\ IF pmsg[s].err
       THEN /\ Leave(s, "error")
            /\ UNCHANGED resp
       ELSE /\ cpc' = [cpc EXCEPT ![s] = "write"]
            /\ resp' = [resp EXCEPT ![s] = pmsg[s].data]
            /\ timer' = [timer EXCEPT ![s] = 0]
            /\ idle' = [idle EXCEPT ![s] = 0]
            /\ UNCHANGED exit
    /\ UNCHANGED <<MaxActive, activeCount, cancelled, tickRem, tickC, sink,
                   flushes, produced, fnErr, age, sinceCancel>>

\* mutant of the write: the payload reaches the sink twice
Written_Twice(s) == Append(Append(sink[s], resp[s]), resp[s])

\* what w holds after w.Write(resp.data)
Written(s) == Append(sink[s], resp[s])

\* w.Write(resp.data) succeeds
WriteOk(s) ==
    /\ cpc[s] = "write"
    /\ sink' = [sink EXCEPT ![s] = Written(s)]
    /\ resp' = [resp EXCEPT ![s] = 0]
    /\ cpc' = [cpc EXCEPT ![s] = "flush"]
    /\ UNCHANGED <<MaxActive, activeCount, ppc, exit, cancelled, pmsg, timer,
                   tickRem, tickC, flushes, produced, fnErr, age, idle,
                   sinceCancel>>

\* w.Write(resp.data) fails: return errors.Wrap(e, "send to stream failed")
WriteFail(s) ==
    /\ cpc[s] = "write"
    /\ resp' = [resp EXCEPT ![s] = 0]
    /\ Leave(s, "writefail")
    /\ UNCHANGED <<MaxActive, activeCount, ppc, cancelled, pmsg, tickRem,
                   tickC, sink, flushes, produced, fnErr, age, sinceCancel>>

\* mutant of the flush: the type assertion is not tested and the sink is
\* never flushed
Flushed_Never(s) == flushes[s]

\* the calls of fw.Flush() after the statement at the end of an iteration
Flushed(s) == IF okFlush(s) THEN flushes[s] + 1 ELSE flushes[s]

\* if fw, okFlush := w.(http.Flusher); okFlush { fw.Flush() }, then the next
\* iteration of the loop
Flush(s) ==
    /\ cpc[s] = "flush"
    /\ flushes' = [flushes EXCEPT ![s] = Flushed(s)]
    /\ cpc' = [cpc EXCEPT ![s] = "select"]
    /\ EnterSelect(s)
    /\ UNCHANGED <<MaxActive, activeCount, ppc, exit, cancelled, pmsg, resp,
                   tickRem, tickC, sink, produced, fnErr, age, sinceCancel>>

\* mutants of the deferred decrement: never run, registered only after the
\* admission check so that a rejected call skips it, skipped after a
\* cancellation, or run twice after a failure
Release_Never(s) == activeCount

Release_NotOnReject(s) ==
    IF exit[s] = "rejected" THEN activeCount ELSE activeCount - 1

Release_NotOnCancel(s) ==
    IF exit[s] = "cancel" THEN activeCount ELSE activeCount - 1

Release_TwiceOnFailure(s) ==
    IF exit[s] \in {"error", "writefail"}
    THEN activeCount - 2 ELSE activeCount - 1

\* the value the deferred atomic.AddInt32(&s.activeCount, -1) of call s stores
Release(s) == activeCount - 1

\* defer atomic.AddInt32(&s.activeCount, -1), and Activate returns
Return(s) ==
    /\ cpc[s] = "ret"
    /\ activeCount' = Release(s)
    /\ cpc' = [cpc EXCEPT ![s] = "done"]
    /\ age' = [age EXCEPT ![s] = 0]
    /\ sinceCancel' = [sinceCancel EXCEPT ![s] = 0]
    /\ UNCHANGED <<MaxActive, ppc, exit, cancelled, pmsg, resp, timer,
                   tickRem, tickC, sink, flushes, produced, fnErr, idle>>

\* the whole for loop of Activate as one step: it ends through one of its
\* return statements
LoopExits == {"cancel", "timeout", "closed", "error", "writefail"}

Stream(s) ==
    /\ cpc[s] = "select"
    /\ \E why \in LoopExits : Leave(s, why)
    /\ UNCHANGED <<MaxActive, activeCount, ppc, cancelled, pmsg, resp,
                   tickRem, tickC, sink, flushes, produced, fnErr, age,
                   sinceCancel>>

\* ---- eventsCh goroutine ---------------------------------------------------
\* case <-ctx.Done(): return
PCtxDone(s) ==
    /\ ppc[s] = "select"
    /\ cancelled[s]
    /\ ppc' = [ppc EXCEPT ![s] = "exit"]
    /\ UNCHANGED <<MaxActive, activeCount, cpc, exit, cancelled, pmsg, resp,
                   timer, tickRem, tickC, sink, flushes, produced, fnErr,
                   age, idle, sinceCancel>>

\* the results fn() can give: the check function is the caller's; it reports
\* an error, a changed payload (at most MaxUpdates times) or no change.  The
\* k-th changed payload is k.
FnResults(s) ==
    {[data |-> 0, upd |-> FALSE, err |-> TRUE],
     [data |-> 0, upd |-> FALSE, err |-> FALSE]}
    \cup (IF Len(produced[s]) < MaxUpdates
          THEN {[data |-> Len(produced[s]) + 1, upd |-> TRUE, err |-> FALSE]}
          ELSE {})

\* mutants of the upd test: every result is forwarded, or none
Forward_Always(r) == TRUE

Forward_Never(r) == FALSE

\* if upd { ch <- ... }
Forward(r) == r.upd

\* case <-tick.C: resp, upd, err := fn(); on err the producer sends the error
\* and returns, on upd it sends the data
PTick(s) ==
    /\ ppc[s] = "select"
    /\ tickC[s]
    /\ tickC' = [tickC EXCEPT ![s] = FALSE]
    /\ \E r \in FnResults(s) :
          /\ fnErr' = [fnErr EXCEPT ![s] = @ \/ r.err]
          /\ produced' = [produced EXCEPT ![s] =
                             IF r.upd /\ ~r.err THEN Append(@, r.data) ELSE @]
          /\ IF r.err
             THEN /\ pmsg' = [pmsg EXCEPT ![s] = steamEventResp(0, TRUE)]
                  /\ ppc' = [ppc EXCEPT ![s] = "send"]
             ELSE IF Forward(r)
             THEN /\ pmsg' = [pmsg EXCEPT ![s] = steamEventResp(r.data, FALSE)]
                  /\ ppc' = [ppc EXCEPT ![s] = "send"]
             ELSE UNCHANGED <<pmsg, ppc>>
    /\ UNCHANGED <<MaxActive, activeCount, cpc, exit, cancelled, resp, timer,
                   tickRem, sink, flushes, age, idle, sinceCancel>>

\* defer func() { close(ch); tick.Stop() }()
PExit(s) ==
    /\ ppc[s] = "exit"
    /\ ppc' = [ppc EXCEPT ![s] = "done"]
    /\ tickC' = [tickC EXCEPT ![s] = FALSE]
    /\ tickRem' = [tickRem EXCEPT ![s] = 0]
    /\ UNCHANGED <<MaxActive, activeCount, cpc, exit, cancelled, pmsg, resp,
                   timer, sink, flushes, produced, fnErr, age, idle,
                   sinceCancel>>

\* ---- environment ----------------------------------------------------------
\* the caller cancels the context of a call it has made, while the call or
\* its goroutine is still there
Cancel(s) ==
    /\ cpc[s] # "idle"
    /\ cpc[s] # "done" \/ ppc[s] # "done"
    /\ ~cancelled[s]
    /\ cancelled' = [cancelled EXCEPT ![s] = TRUE]
    /\ UNCHANGED <<MaxActive, activeCount, cpc, ppc, exit, pmsg, resp, timer,
                   tickRem, tickC, sink, flushes, produced, fnErr, age, idle,
                   sinceCancel>>

\* a step that does not wait for I/O or for time is enabled for s
Urgent(s) ==
    \/ cpc[s] \in {"adm", "ret"}
    \/ /\ cpc[s] = "select"
       /\ cancelled[s] \/ timer[s] = 0 \/ ppc[s] = "send" \/ Closed(s)
    \/ /\ ppc[s] = "select"
       /\ cancelled[s] \/ tickC[s]
    \/ ppc[s] = "exit"

\* one time unit passes: timers count down, tickers deliver a tick into the
\* one-element buffer of tick.C (a tick that finds it full is dropped)
Tick ==
    /\ \A s \in Streams : ~Urgent(s)
    /\ \E s \in Streams : cpc[s] \notin {"idle", "done"} \/ TickerOn(s)
    /\ timer' = [s \in Streams |->
                    IF cpc[s] = "select" /\ timer[s] > 0
                    THEN timer[s] - 1 ELSE timer[s]]
    /\ idle' = [s \in Streams |->
                    IF cpc[s] = "select"
                    THEN Min(idle[s] + 1, TimeOut + 1) ELSE idle[s]]
    /\ age' = [s \in Streams |->
                    IF cpc[s] \notin {"idle", "done"}
                    THEN Min(age[s] + 1, TimeOut + 1) ELSE age[s]]
    /\ sinceCancel' = [s \in Streams |->
                    IF cancelled[s] /\ cpc[s] \notin {"idle", "done"}
                    THEN Min(sinceCancel[s] + 1, Refresh + 1)
                    ELSE sinceCancel[s]]
    /\ tickRem' = [s \in Streams |->
                    IF TickerOn(s)
                    THEN (IF tickRem[s] = 1 THEN Refresh ELSE tickRem[s] - 1)
                    ELSE tickRem[s]]
    /\ tickC' = [s \in Streams |->
                    IF TickerOn(s) /\ tickRem[s] = 1 THEN TRUE ELSE tickC[s]]
    /\ UNCHANGED <<MaxActive, activeCount, cpc, ppc, exit, cancelled, pmsg,
                   resp, sink, flushes, produced, fnErr>>

\* one step of call s: of its Activate or of its eventsCh goroutine, or the
\* cancellation of its context
Step(s) ==
    \/ Start(s)
    \/ Admit(s)
    \/ CtxDone(s)
    \/ TimedOut(s)
    \/ RecvClosed(s)
    \/ Recv(s)
    \/ WriteOk(s)
    \/ WriteFail(s)
    \/ Flush(s)
    \/ Return(s)
    \/ PCtxDone(s)
    \/ PTick(s)
    \/ PExit(s)
    \/ Cancel(s)

Next ==
    \/ \E s \in Sessions : Step(s)
    \/ Tick

Spec == Init /\ [][Next]_vars

\* The scheduler runs every goroutine that can take a step; a sink's Write and
\* Flush return; select picks among its ready cases at random, so a case that
\* is ready again and again is eventually taken; time passes.
Fairness ==
    /\ WF_vars(Tick)
    /\ \A s \in Single :
        /\ SF_vars(CtxDone(s))
        /\ SF_vars(TimedOut(s))
        /\ SF_vars(Recv(s))
        /\ SF_vars(PCtxDone(s))
        /\ SF_vars(PTick(s))
        /\ WF_vars(PExit(s))
        /\ WF_vars(WriteOk(s) \/ WriteFail(s))
        /\ WF_vars(Flush(s))
        /\ WF_vars(Return(s))

\* the specification of the liveness claims follows one call
NextOne ==
    \/ \E s \in Single : Step(s)
    \/ Tick

FairSpec == Init /\ [][NextOne]_vars /\ Fairness

\* two concurrently open streams of one Streamer
Pair == {1, 2}

NextPair ==
    \/ \E s \in Pair : Step(s)
    \/ Tick

SpecPair == Init /\ [][NextPair]_vars

NextAdm ==
    \/ \E s \in Streams : Start(s)
    \/ \E s \in Streams : Admit(s)
    \/ \E s \in Streams : Stream(s)
    \/ \E s \in Streams : Return(s)

SpecAdm == Init /\ [][NextAdm]_vars

\* ---- admission -----------------------------------------------------------
Admitted == {s \in Streams : Accepted(s)}

Rejected == {s \in Streams : exit[s] = "rejected"}

AllIncremented == \A s \in Streams : cpc[s] \notin {"idle", "adm"}

\* C1: the calls that passed the admission check (post-increment count <=
\* MaxActive) and have not returned are never more than MaxActive.
C1_AdmittedWithinLimit == Cardinality(Admitted) <= MaxActive

\* MaxActive calls are admitted and open while one more is being rejected
C1_Witness ==
    /\ MaxActive = MaxActiveLimit
    /\ Cardinality(Admitted) = MaxActive
    /\ \E s \in Streams : cpc[s] = "ret" /\ exit[s] = "rejected"

\* every call has incremented and no accepted call has returned: the calls
\* overlap
Overlap == AllIncremented /\ \A s \in Streams \ Rejected : InFlight(s)

\* C2: when all N+k calls overlap (no accepted call returns before every call
\* has incremented), exactly k are rejected and exactly N are accepted.
C2_ExactRejections ==
    (Overlap /\ Cardinality(Streams) > MaxActive)
        => /\ Cardinality(Rejected) = Cardinality(Streams) - MaxActive
           /\ Cardinality(Streams \ Rejected) = MaxActive

\* the calls overlap, the accepted ones are open and the rejected ones, more
\* than one, have returned
C2_Witness ==
    /\ Overlap
    /\ MaxActive >= 1
    /\ Cardinality(Rejected) >= 2
    /\ \A s \in Rejected : cpc[s] = "done"

\* C3: activeCount is the number of calls that have incremented and not yet
\* returned: it is never negative and is 0 once every call has returned, on
\* whichever path the calls left.
C3_CounterMatchesInFlight ==
    /\ activeCount = Cardinality({s \in Streams : InFlight(s)})
    /\ activeCount >= 0
    /\ (\A s \in Streams : cpc[s] \in {"idle", "done"}) => activeCount = 0

\* every call has returned, one rejected, one after a failed write and one
\* by cancellation
C3_Witness ==
    /\ \A s \in Streams : cpc[s] = "done"
    /\ \E s \in Streams : exit[s] = "rejected"
    /\ \E s \in Streams : exit[s] = "writefail"
    /\ \E s \in Streams : exit[s] = "cancel"
    /\ activeCount = 0

\* no call other than s holds the counter: each has returned or has not yet
\* incremented
AloneInFlight(s) == \A t \in Streams \ {s} : ~InFlight(t)

\* C4: a call that runs its admission check when every call that incremented
\* before it has returned is admitted if MaxActive >= 1, whatever happened
\* before.
C4_SlotReusable ==
    [][\A s \in Streams :
          (cpc[s] = "adm" /\ cpc'[s] # "adm" /\ AloneInFlight(s) /\ MaxActive >= 1)
              => cpc'[s] = "select" /\ exit'[s] # "rejected"]_vars

\* a call is admitted after an accepted and a rejected call have returned
C4_Witness ==
    \E s \in Streams :
        /\ AloneInFlight(s)
        /\ cpc[s] = "select"
        /\ \E t \in Streams : cpc[t] = "done" /\ exit[t] = "rejected"
        /\ \E t \in Streams : cpc[t] = "done" /\ exit[t] \in LoopExits

\* ---- timeout and cancellation ---------------------------------------------
\* C5 as claimed: the timeout is absolute, so time never passes the point
\* TimeOut after the start of a stream that waits in its select, uncancelled.
C5_AbsoluteTimeout ==
    [][\A s \in Streams :
          (cpc[s] = "select" /\ ~cancelled[s] /\ age[s] >= TimeOut)
              => age'[s] = age[s]]_vars

\* C5, amended: the timeout is an inactivity timeout.  The timer is created
\* anew at every entry of the select, so a stream never waits in one select
\* for longer than TimeOut, and leaving by the timer returns nil.
C5_InactivityTimeout ==
    \A s \in Streams :
        /\ cpc[s] = "select" => idle[s] <= TimeOut /\ timer[s] <= TimeOut - idle[s]
        /\ exit[s] = "timeout" => Err(s) = "nil"

\* an uncancelled stream that received an update still waits, with time left
\* on its timer, more than TimeOut after it started
C5_Witness ==
    \E s \in Streams :
        /\ cpc[s] = "select"
        /\ ~cancelled[s]
        /\ Len(sink[s]) >= 1
        /\ age[s] > TimeOut
        /\ timer[s] > 0

\* C6 as claimed: an accepted stream whose context is cancelled returns
\* within one refresh interval of the cancellation, and with a nil error.
C6_CancelReturnsNil ==
    [][\A s \in Streams :
          (cancelled[s] /\ Running(s))
              => /\ sinceCancel'[s] <= Refresh
                 /\ cpc'[s] = "ret" => exit'[s] \in {"cancel", "timeout", "closed"}]_vars

\* C6, amended: an accepted stream whose context is cancelled eventually
\* returns, and when it has returned its slot is released.
C6_CancelReturns ==
    \A s \in Single :
        (cancelled[s] /\ Running(s))
            ~> (cpc[s] = "done" /\ activeCount = Cardinality({t \in Streams : InFlight(t)}))

\* a stream that had written an update left through ctx.Done() after its
\* context was cancelled, and the counter is back at 0
C6_Witness ==
    \E s \in Streams :
        /\ cpc[s] = "done"
        /\ cancelled[s]
        /\ exit[s] = "cancel"
        /\ Len(sink[s]) >= 1
        /\ activeCount = 0

\* ---- producer and payloads ------------------------------------------------
\* C7: once the context of a stream is cancelled its producer goroutine
\* eventually exits, having closed the channel and stopped the ticker.
C7_ProducerExits ==
    \A s \in Single : cancelled[s] ~> (ppc[s] = "done")

IsPrefix(a, b) ==
    /\ Len(a) <= Len(b)
    /\ \A i \in 1..Len(a) : a[i] = b[i]

\* C8: the payloads written to the sink of a stream are a prefix of the
\* payloads its check function returned with changed = true.
C8_SinkIsPrefix == \A s \in Streams : IsPrefix(sink[s], produced[s])

\* every payload of a check function that changed MaxUpdates times is in the
\* sink, in order
C8_Witness ==
    \E s \in Streams :
        /\ MaxUpdates >= 2
        /\ Len(sink[s]) = MaxUpdates
        /\ sink[s] = produced[s]

\* the check function of s has so far reported neither a change nor an error
Quiet(s) == produced[s] = <<>> /\ ~fnErr[s]

\* C9: a stream whose check function never reports a change (nor an error)
\* sends nothing on the channel and writes nothing, and once accepted it
\* returns only by cancellation or timeout, with a nil error.
C9_QuietStreamWritesNothing ==
    \A s \in Streams :
        Quiet(s) =>
            /\ sink[s] = <<>> /\ flushes[s] = 0
            /\ ppc[s] # "send" /\ pmsg[s] = NoResp
            /\ cpc[s] \notin {"write", "flush"}
            /\ (cpc[s] \in {"ret", "done"} /\ exit[s] # "rejected")
                  => /\ \/ exit[s] \in {"cancel", "timeout"}
                        \/ exit[s] = "closed" /\ cancelled[s]
                     /\ Err(s) = "nil"

\* a stream whose check function stayed quiet through TimeOut has ended by
\* timeout with an empty sink
C9_Witness ==
    \E s \in Streams :
        /\ Quiet(s)
        /\ cpc[s] = "done"
        /\ exit[s] = "timeout"
        /\ ~cancelled[s]
        /\ sink[s] = <<>>

\* C10 as claimed: a stream that is running when its check function has
\* returned an error leaves only by returning that error.
C10_ErrorAlwaysReturned ==
    [][\A s \in Streams :
          (fnErr[s] /\ Running(s) /\ cpc'[s] = "ret") => exit'[s] = "error"]_vars

\* the producer of s has handed its error message to the consumer
ErrorReceived(s) == fnErr[s] /\ ppc[s] \in {"exit", "done"}

\* C10, amended: when the consumer receives the error message Activate
\* returns that error, not nil; a stream whose check function failed never
\* ends through the closed-channel branch, and ends with nil or a write error
\* only if it left the loop before receiving the message.
C10_ErrorReturnedIfReceived ==
    \A s \in Streams :
        /\ ErrorReceived(s)
              => /\ cpc[s] \in {"ret", "done"}
                 /\ exit[s] = "error"
                 /\ Err(s) = "can't get stream data"
        /\ (fnErr[s] /\ cpc[s] \in {"ret", "done"} /\ exit[s] # "rejected")
              => exit[s] \in {"error", "cancel", "timeout", "writefail"}

\* a stream wrote an update and then returned the error of its check function
C10_Witness ==
    \E s \in Streams :
        /\ cpc[s] = "done"
        /\ ErrorReceived(s)
        /\ Len(sink[s]) >= 1
        /\ Err(s) = "can't get stream data"

\* ---- errors ---------------------------------------------------------------
\* C11: a failed write ends the stream at once with the write error: the step
\* that fails goes to the return without a flush, and from then on the sink and
\* the flush count stay as they are, no message is taken from the channel, the
\* call only returns, and when it has returned its slot is released.
C11_WriteFailureEndsStream ==
    [][\A s \in Streams :
          /\ (cpc[s] = "write" /\ cpc'[s] # "write" /\ sink'[s] = sink[s])
                => /\ cpc'[s] = "ret"
                   /\ exit'[s] = "writefail"
                   /\ flushes'[s] = flushes[s]
          /\ exit[s] = "writefail"
                => /\ sink'[s] = sink[s]
                   /\ flushes'[s] = flushes[s]
                   /\ pmsg'[s] # NoResp \/ pmsg[s] = NoResp
                   /\ cpc[s] \in {"ret", "done"} /\ cpc'[s] \in {"ret", "done"}
                   /\ exit'[s] = "writefail"
                   /\ Err(s) = "send to stream failed"
                   /\ (cpc[s] = "ret" /\ cpc'[s] = "done")
                         => activeCount' = activeCount - 1]_vars

\* after one written update a write failed: the call has returned, the
\* counter is 0, and the next message of the producer waits unreceived
C11_Witness ==
    \E s \in Sessions :
        /\ exit[s] = "writefail"
        /\ cpc[s] = "done"
        /\ Len(sink[s]) = 1
        /\ flushes[s] = 1
        /\ ppc[s] = "send" /\ pmsg[s] # NoResp
        /\ activeCount = 0

\* C12: the value Activate returns tells how the call ended.  A returned call
\* has a non-nil error exactly when it was rejected, received an error of the
\* check function or failed to write, each with its own error and only when
\* that happened; it has nil exactly when it left by cancellation, timeout or
\* the closed channel.
C12_ReturnClassifies ==
    \A s \in Streams :
        cpc[s] \in {"ret", "done"} =>
            /\ Err(s) # "nil" <=> exit[s] \in {"rejected", "error", "writefail"}
            /\ Err(s) = "nil" <=> exit[s] \in {"cancel", "timeout", "closed"}
            /\ Err(s) = "too many streams"
                  => exit[s] = "rejected" /\ sink[s] = <<>>
            /\ Err(s) = "can't get stream data"
                  => exit[s] = "error" /\ ErrorReceived(s)
            /\ Err(s) = "send to stream failed"
                  => exit[s] = "writefail" /\ Len(sink[s]) < Len(produced[s])
            /\ exit[s] = "cancel" => cancelled[s]
            /\ exit[s] = "closed" => Closed(s)

\* a write failed while the error of the check function was waiting in the
\* producer's send: the call returned the write error, not that of the check
\* function
C12_Witness ==
    \E s \in Sessions :
        /\ cpc[s] = "done"
        /\ Err(s) = "send to stream failed"
        /\ fnErr[s]
        /\ ppc[s] = "send" /\ pmsg[s].err

\* what belongs to stream s alone: its sink, its channel and producer, its
\* check function, and where and how its call ended
Own(s) ==
    <<sink[s], flushes[s], pmsg[s], ppc[s], tickC[s], tickRem[s], produced[s],
      fnErr[s], cpc[s], exit[s], resp[s], cancelled[s], timer[s]>>

\* the step is a failure of stream s: its check function returns an error,
\* its consumer receives that error, or its write fails
FailureStep(s) ==
    \/ ~fnErr[s] /\ fnErr'[s]
    \/ exit[s] # "error" /\ exit'[s] = "error"
    \/ exit[s] # "writefail" /\ exit'[s] = "writefail"

\* C13: a failure of stream a changes nothing that belongs to another stream
\* b, neither its sink, its channel, its check function nor its outcome; and
\* after every step, the return of a failed call included, the shared counter
\* is the number of calls in flight.
C13_FailuresAreLocal ==
    [][/\ \A a \in Streams : \A b \in Streams \ {a} :
             FailureStep(a) => Own(b)' = Own(b)
       /\ activeCount' =
             Cardinality({t \in Streams :
                            cpc'[t] \in {"select", "write", "flush", "ret"}})]_vars

\* stream a has returned the error of its check function; stream b, open at
\* the same Streamer, has written an update and still waits, and the counter
\* counts b alone
C13_Witness ==
    \E a \in Pair : \E b \in Pair \ {a} :
        /\ cpc[a] = "done" /\ exit[a] = "error"
        /\ cpc[b] = "select" /\ ~fnErr[b] /\ ~cancelled[b]
        /\ Len(sink[b]) >= 1
        /\ activeCount = 1

\* C14: with MaxActive = 0 no call ever enters the loop: whatever the
\* interleaving, a call that has passed the admission check returns "too many
\* streams", and nothing is written to or flushed on any sink.
C14_ZeroDisablesStreaming ==
    MaxActive = 0 =>
        \A s \in Streams :
            /\ ~Running(s)
            /\ cpc[s] \in {"ret", "done"}
                  => exit[s] = "rejected" /\ Err(s) = "too many streams"
            /\ sink[s] = <<>> /\ flushes[s] = 0 /\ resp[s] = 0

\* with MaxActive = 0 two overlapping calls have both been rejected and have
\* returned, while a producer holds an update nobody will take
C14_Witness ==
    /\ MaxActive = 0
    /\ \A s \in Pair : cpc[s] = "done" /\ exit[s] = "rejected" /\ sink[s] = <<>>
    /\ \E s \in Pair : ppc[s] = "send" /\ ~pmsg[s].err

\* ---- timeout of a silent stream --------------------------------------------
\* the consumer of s has received nothing from the channel so far
NothingDelivered(s) ==
    /\ sink[s] = <<>> /\ resp[s] = 0
    /\ cpc[s] \notin {"write", "flush"}
    /\ exit[s] \notin {"error", "writefail"}

\* C15: an accepted stream that is never cancelled and receives nothing
\* eventually returns by itself, through the timeout and with nil, and it
\* does not leave through the timeout before TimeOut has passed since it
\* started.
C15_SilentStreamTimesOut ==
    /\ \A s \in Single :
          (cpc[s] = "select" /\ ~cancelled[s] /\ NothingDelivered(s))
              ~> \/ cpc[s] = "done" /\ exit[s] = "timeout" /\ Err(s) = "nil"
                 \/ cancelled[s]
                 \/ ~NothingDelivered(s)
    /\ [](\A s \in Single :
            /\ (cpc[s] \in {"ret", "done"} /\ exit[s] # "rejected"
                  /\ ~cancelled[s] /\ NothingDelivered(s))
                  => exit[s] = "timeout" /\ Err(s) = "nil"
            /\ (cpc[s] = "ret" /\ exit[s] = "timeout") => age[s] >= TimeOut)

\* an uncancelled stream that received nothing is returning through the
\* timeout exactly TimeOut after it started
C15_Witness ==
    \E s \in Single :
        /\ cpc[s] = "ret" /\ exit[s] = "timeout"
        /\ ~cancelled[s]
        /\ NothingDelivered(s)
        /\ age[s] = TimeOut

\* ---- producer --------------------------------------------------------------
\* C16: once the check function of a stream has returned an error its
\* producer is never again at its select, so it takes no tick and invokes the
\* check function no more; the only message it sends is that one error
\* message, and the payloads produced stay as they were.
C16_ErrorNeverRetried ==
    [][\A s \in Streams :
          fnErr[s] =>
              /\ ppc[s] \in {"send", "exit", "done"}
              /\ ppc'[s] \in {"send", "exit", "done"}
              /\ ppc[s] = "send" => pmsg[s] = steamEventResp(0, TRUE)
              /\ pmsg'[s] = pmsg[s] \/ pmsg'[s] = NoResp
              /\ produced'[s] = produced[s]
              /\ tickC[s] => tickC'[s] \/ ppc'[s] = "done"]_vars

\* the check function failed after a payload; the consumer received the
\* error, the producer has closed the channel and the call has returned
C16_Witness ==
    \E s \in Sessions :
        /\ fnErr[s]
        /\ Len(produced[s]) = 1
        /\ ppc[s] = "done"
        /\ exit[s] = "error"
        /\ cpc[s] = "ret"

\* C17: once the context of a stream is cancelled its producer takes no
\* further tick and so invokes the check function no more, it begins no new
\* send, and no new payload is produced that could reach the sink.
C17_NothingAfterCancel ==
    [][\A s \in Streams :
          cancelled[s] =>
              /\ ~(ppc[s] = "select" /\ tickC[s] /\ ~tickC'[s])
              /\ ppc[s] # "send" => ppc'[s] # "send"
              /\ produced'[s] = produced[s]]_vars

\* the producer of s takes a tick from tick.C and calls the check function
Invokes(s) == ppc[s] = "select" /\ tickC[s] /\ ~tickC'[s]

\* the step shows a result of the check function of s: a new payload or its
\* first error
Reports(s) == produced'[s] # produced[s] \/ (~fnErr[s] /\ fnErr'[s])

\* the producer of s begins a send on the channel
BeginsSend(s) == ppc[s] # "send" /\ ppc'[s] = "send"

\* C18: the check function of a stream gives a result only in a step that
\* takes a tick from tick.C, one result for one tick, and only when the
\* producer is at its select, not in a send; a send begins exactly in the
\* steps where the check function reported a change or an error, and it
\* carries that payload or the error.
C18_OneInvocationPerTick ==
    [][\A s \in Streams :
          /\ Reports(s) => Invokes(s)
          /\ BeginsSend(s) => Invokes(s)
          /\ Invokes(s) =>
                /\ Len(produced'[s]) <= Len(produced[s]) + 1
                /\ BeginsSend(s) <=> Reports(s)
                /\ produced'[s] # produced[s]
                      => pmsg'[s] = steamEventResp(Len(produced'[s]), FALSE)
                /\ (~fnErr[s] /\ fnErr'[s])
                      => pmsg'[s] = steamEventResp(0, TRUE)
          /\ ppc[s] = "send"
                => /\ produced'[s] = produced[s] /\ fnErr'[s] = fnErr[s]
                   /\ pmsg'[s] = pmsg[s] \/ ppc'[s] # "send"]_vars

\* the second payload waits in the send while the next tick is already in
\* tick.C, not taken
C18_Witness ==
    \E s \in Sessions :
        /\ ppc[s] = "send"
        /\ pmsg[s] = steamEventResp(2, FALSE)
        /\ tickC[s]
        /\ Len(sink[s]) = 1

\* C19: Activate leaves through the closed-channel case only when the
\* producer exited because of cancellation.  A producer that exits because
\* of an error closes the channel only after the consumer has taken the error
\* message, so a stream whose channel is closed after an error has left with
\* that error or had left before.
C19_ClosedMeansCancelled ==
    \A s \in Streams :
        /\ exit[s] = "closed"
              => cancelled[s] /\ ~fnErr[s] /\ ppc[s] = "done"
        /\ (fnErr[s] /\ ppc[s] \in {"exit", "done"})
              => cpc[s] \in {"ret", "done"} /\ exit[s] = "error"

\* a cancelled stream whose producer closed the channel after an error has
\* returned that error
C19_Witness ==
    \E s \in Sessions :
        /\ fnErr[s] /\ cancelled[s]
        /\ ppc[s] = "done"
        /\ cpc[s] = "done"
        /\ exit[s] = "error"

\* C20: a call is rejected only when MaxActive accepted streams are open at
\* its admission check.
C20_RejectedOnlyWhenFull ==
    [][\A s \in Streams :
          (cpc[s] = "adm" /\ exit'[s] = "rejected")
              => Cardinality(Admitted) >= MaxActive]_vars

\* ---- sink ------------------------------------------------------------------
\* C21: on a sink that is an http.Flusher every successful write is followed
\* by one flush before the consumer does anything else: the flushes are as
\* many as the writes, less the one that is due while the call is between
\* its write and its flush, and from there the call only goes on, by that
\* flush, to its select.  A sink that is no Flusher is never flushed.
C21_FlushAfterEachWrite ==
    /\ [](\A s \in Streams :
            /\ okFlush(s)
                  => flushes[s] =
                        Len(sink[s]) - (IF cpc[s] = "flush" THEN 1 ELSE 0)
            /\ ~okFlush(s) => flushes[s] = 0)
    /\ [][\A s \in Streams :
            /\ (cpc[s] = "write" /\ sink'[s] # sink[s]) => cpc'[s] = "flush"
            /\ cpc[s] = "flush"
                  => /\ cpc'[s] \in {"flush", "select"}
                     /\ exit'[s] = exit[s]
                     /\ sink'[s] = sink[s]
            /\ flushes'[s] # flushes[s]
                  => /\ cpc[s] = "flush" /\ cpc'[s] = "select"
                     /\ flushes'[s] = flushes[s] + 1]_vars

\* a flushing sink has taken two writes and two flushes, and the call waits
\* in its select again
C21_Witness ==
    \E s \in Sessions :
        /\ okFlush(s)
        /\ Len(sink[s]) = 2
        /\ flushes[s] = 2
        /\ cpc[s] = "select"
        /\ ~cancelled[s]

\* ---- ticker ----------------------------------------------------------------
\* C22: no refresh interval is skipped or coalesced: whenever an interval of
\* a running producer elapses, the tick of the interval before it has been
\* taken from tick.C and answered by an invocation of the check function, so
\* that the new tick finds room and is not dropped.
C22_NoTickDropped ==
    [][Tick => \A s \in Streams :
                  (ppc[s] \in {"select", "send"} /\ tickRem[s] = 1)
                      => ~tickC[s]]_vars

\* C23: a rejected call returns before its loop: it is never at the select,
\* the write or the flush, its sink stays empty and unflushed, and it takes
\* nothing from its channel, where the message of its producer, started
\* before the admission check, stays in the send.
C23_RejectedTouchesNothing ==
    [][\A s \in Streams :
          exit[s] = "rejected" =>
              /\ cpc[s] \in {"ret", "done"} /\ cpc'[s] \in {"ret", "done"}
              /\ sink[s] = <<>> /\ sink'[s] = <<>>
              /\ flushes[s] = 0 /\ flushes'[s] = 0
              /\ resp[s] = 0 /\ resp'[s] = 0
              /\ ppc[s] = "send" => ppc'[s] = "send" /\ pmsg'[s] = pmsg[s]
              /\ exit'[s] = "rejected"]_vars

\* of two calls with MaxActive = 1 one was accepted and has written a
\* payload; the other was rejected and has returned with an empty sink, while
\* its producer has invoked the check function and waits in its send
C23_Witness ==
    \E a \in Pair : \E b \in Pair \ {a} :
        /\ MaxActive = 1
        /\ Len(sink[a]) >= 1
        /\ exit[b] = "rejected" /\ cpc[b] = "done"
        /\ produced[b] # <<>> /\ ppc[b] = "send"
        /\ sink[b] = <<>> /\ flushes[b] = 0

\* C24: once Activate has taken a return statement the sink is never written
\* or flushed again, whatever the producer goroutine still does; the call
\* only runs its deferred decrement and is gone.
C24_SinkUntouchedAfterReturn ==
    [][\A s \in Streams :
          /\ exit[s] # "none"
                => /\ cpc[s] \in {"ret", "done"} /\ cpc'[s] \in {"ret", "done"}
                   /\ sink'[s] = sink[s]
                   /\ flushes'[s] = flushes[s]
          /\ cpc[s] = "done" => cpc'[s] = "done" /\ exit'[s] = exit[s]]_vars

\* a call that wrote one payload has returned by timeout; its producer is
\* still there, holding the next payload in its send, and the sink is as the
\* call left it
C24_Witness ==
    \E s \in Sessions :
        /\ cpc[s] = "done" /\ exit[s] = "timeout"
        /\ ppc[s] = "send" /\ pmsg[s] = steamEventResp(2, FALSE)
        /\ sink[s] = <<1>>

\* ---- channel ---------------------------------------------------------------
\* C25: the channel of a stream is closed once, by the deferred close of its
\* producer after the producer has returned from its loop, with no send
\* pending; after the close the producer does nothing more: it neither sends
\* nor takes a tick, and the channel is not closed again.
C25_ClosedOnceNoSendAfter ==
    [][\A s \in Streams :
          /\ (ppc[s] # "done" /\ ppc'[s] = "done")
                => /\ ppc[s] = "exit"
                   /\ pmsg[s] = NoResp
                   /\ cpc'[s] = cpc[s] /\ exit'[s] = exit[s]
          /\ ppc[s] = "exit" => ppc'[s] \in {"exit", "done"} /\ pmsg'[s] = NoResp
          /\ ppc[s] = "done"
                => /\ ppc'[s] = "done"
                   /\ pmsg[s] = NoResp /\ pmsg'[s] = NoResp
                   /\ produced'[s] = produced[s] /\ fnErr'[s] = fnErr[s]
                   /\ ~tickC[s] /\ ~tickC'[s]]_vars

\* the producer closed the channel after cancellation while the call, slow in
\* its write, had not yet come back to its select
C25_Witness ==
    \E s \in Sessions :
        /\ ppc[s] = "done"
        /\ cancelled[s] /\ ~fnErr[s]
        /\ cpc[s] = "write"

TypeOK ==
    /\ MaxActive \in 0..MaxActiveLimit
    /\ activeCount \in 0..Cardinality(Streams)
    /\ cpc \in [Streams -> {"idle", "adm", "select", "write", "flush", "ret", "done"}]
    /\ ppc \in [Streams -> {"none", "select", "send", "exit", "done"}]
    /\ \A s \in Streams : timer[s] \in 0..TimeOut /\ tickRem[s] \in 0..Refresh

====
